---- MODULE Spec2Model ----
(***************************************************************************)
(* Model of the page-collection editor of src/src/App.jsx (component App): *)
(* the page registry (pdfPages), the selection (selectedPages), the drag   *)
(* protocol (handleDragStart / handleDragEnd), the asynchronous file       *)
(* intake (onDrop) and the asynchronous merge (mergeAndDownload).          *)
(*                                                                         *)
(* Handlers of discrete events (clicks, drag end) run to completion on the *)
(* state of the latest render.  The two async functions are cut at their   *)
(* awaits: every action below is one run-to-completion segment.            *)
(***************************************************************************)
EXTENDS Integers, Sequences, FiniteSets, TLC

VARIABLES pdfPages, view, optimizeCanvas, flattenPages, selectedPages,
          activeId, now, intakes, merge

vars == <<pdfPages, view, optimizeCanvas, flattenPages, selectedPages,
          activeId, now, intakes, merge>>

(***************************************************************************)
(* Bounds of the model.                                                    *)
(***************************************************************************)
\* largest number of pages the registry and the intakes in flight may hold
\* together (a file that does not parse counts as one page)
MaxPages == 3
\* the clock read by Date.now() runs over 0..MaxClock
MaxClock == 1
\* the same room, in the specification of the whole editor
MaxEditPages == 2

(***************************************************************************)
(* The files the user can drop.  FA and FA2 are two different documents    *)
(* with the same file name (picked from two folders); FX is not a PDF.     *)
(***************************************************************************)
FA == "FA"
FA2 == "FA2"
FX == "FX"
Files == {FA, FA2, FX}

\* File.name
FileName(f) == IF f = FX THEN "x.pdf" ELSE "a.pdf"

\* whether pdfjsLib.getDocument / PDFDocument.load can parse the bytes
Parseable(f) == f # FX

\* pdf.numPages of the parsed document
NumPages(f) == CASE f = FA -> 2 [] f = FA2 -> 1 [] OTHER -> 0

\* pdfPage.getViewport({scale: 1}) / srcPage.getSize(): natural size in points
PageWidth(f, i) == IF f = FA2 THEN 1000 ELSE 612
PageHeight(f, i) == IF f = FA2 THEN 1300 ELSE 792

(***************************************************************************)
(* JavaScript values and array helpers.                                    *)
(***************************************************************************)
\* null (activeId, event.over)
Null == <<>>

\* pdfPages[i] for an index outside the array
Undefined == [id |-> <<"undefined">>, file |-> "undefined", pageIndex |-> -1,
              rotation |-> 0, width |-> 0, height |-> 0]

\* the template string `${file.name}-page-${i}-${Date.now()}`
PageId(f, i, t) == <<FileName(f), i, t>>

\* Array.prototype.includes
Includes(arr, x) == \E k \in DOMAIN arr : arr[k] = x

\* pages.map(p => p.id)
IdsOf(pages) == [k \in DOMAIN pages |-> pages[k].id]

\* the set of ids present in an array of pages
IdSet(pages) == {pages[k].id : k \in DOMAIN pages}

\* Array.prototype.findIndex(p => p.id === id): zero-based, -1 when absent
FindIndex(pages, id) ==
    IF \E k \in DOMAIN pages : pages[k].id = id
    THEN (CHOOSE k \in DOMAIN pages :
             /\ pages[k].id = id
             /\ \A j \in 1..(k - 1) : pages[j].id # id) - 1
    ELSE -1

\* arr[i] with a zero-based index
At(arr, i) == IF i >= 0 /\ i < Len(arr) THEN arr[i + 1] ELSE Undefined

\* Array.prototype.slice(start, end), zero-based, end exclusive; a negative
\* index counts from the end of the array
Clamp(arr, i) ==
    IF i < 0 THEN (IF Len(arr) + i < 0 THEN 0 ELSE Len(arr) + i)
    ELSE (IF i > Len(arr) THEN Len(arr) ELSE i)

Slice(arr, start, end) ==
    LET s == Clamp(arr, start)
        e == Clamp(arr, end)
    IN  IF e <= s THEN <<>> ELSE [k \in 1..(e - s) |-> arr[s + k]]

\* arr.slice(start)
SliceFrom(arr, start) == Slice(arr, start, Len(arr))

(***************************************************************************)
(* Initial state: the useState defaults.                                   *)
(***************************************************************************)
\* no merge was started yet
NoMerge == [status |-> "idle", pages |-> <<>>, flatten |-> FALSE,
            optimize |-> FALSE, k |-> 0, loadedPdfs |-> <<>>,
            decoded |-> <<>>, out |-> <<>>]

Init ==
    /\ pdfPages = <<>>
    /\ view = "upload"
    /\ optimizeCanvas = TRUE
    /\ flattenPages = FALSE
    /\ selectedPages = <<>>
    /\ activeId = Null
    /\ now = 0
    /\ intakes = <<>>
    /\ merge = NoMerge

(***************************************************************************)
(* The clock behind Date.now().  It is observed only when onDrop reads it: *)
(* now is the latest reading, and a reading is never smaller than the one  *)
(* before (any number of steps may happen within one millisecond, and any  *)
(* time may pass between two of them).                                     *)
(***************************************************************************)
Readings == now..MaxClock

(***************************************************************************)
(* File intake: onDrop(acceptedFiles), an async function.  It suspends at  *)
(* file.arrayBuffer() / getDocument() once per file and at pdf.getPage()   *)
(* once per page; intakes is the list of the calls in flight, each with    *)
(* its local state (acceptedFiles, the position of the two loops,          *)
(* newPages).                                                              *)
(***************************************************************************)
\* the room a file takes in the bound MaxPages
Weight(f) == IF Parseable(f) THEN NumPages(f) ELSE 1

RECURSIVE TotalWeight(_)
TotalWeight(files) ==
    IF files = <<>> THEN 0
    ELSE Weight(Head(files)) + TotalWeight(Tail(files))

RECURSIVE PendingWeight(_)
PendingWeight(calls) ==
    IF calls = <<>> THEN 0
    ELSE TotalWeight(Head(calls).files) + PendingWeight(Tail(calls))

\* the possible values of acceptedFiles: distinct File objects in any order
Drops ==
    {files \in UNION {[1..n -> Files] : n \in 0..Cardinality(Files)} :
        \A j, k \in DOMAIN files : j # k => files[j] # files[k]}

\* a list without its s-th element
RemoveAt(seq, s) ==
    [k \in 1..(Len(seq) - 1) |-> IF k < s THEN seq[k] ELSE seq[k + 1]]

\* the object literal pushed to newPages
NewPageEntry(f, i, t) ==
    [id |-> PageId(f, i, t), file |-> f, pageIndex |-> i, rotation |-> 0,
     width |-> PageWidth(f, i), height |-> PageHeight(f, i)]

\* the bug of putting the new pages in front of the registry
AppendPagesInFront(prev, newPages) == newPages \o prev

\* setPdfPages((prev) => [...prev, ...newPages])
AppendPages(prev, newPages) == prev \o newPages

\* onDrop up to its first await; with no accepted file both loops are
\* skipped and the call ends at once
OnDropStart(files) ==
    /\ view = "upload"
    /\ Len(pdfPages) + PendingWeight(intakes) + TotalWeight(files) <= MaxPages
    /\ IF files = <<>>
       THEN /\ pdfPages' = AppendPages(pdfPages, <<>>)
            /\ view' = "reorder"
            /\ UNCHANGED intakes
       ELSE /\ intakes' = Append(intakes,
                   [files |-> files, fileIdx |-> 1, opened |-> FALSE,
                    i |-> 0, newPages |-> <<>>])
            /\ UNCHANGED <<pdfPages, view>>
    /\ UNCHANGED <<optimizeCanvas, flattenPages, selectedPages, activeId,
                   now, merge>>

\* await file.arrayBuffer(); await getDocument(...).promise: a file that does
\* not parse rejects, the exception leaves onDrop and nothing is appended
OnDropOpen(s) ==
    /\ s \in DOMAIN intakes
    /\ ~intakes[s].opened
    /\ LET f == intakes[s].files[intakes[s].fileIdx]
       IN  IF Parseable(f)
           THEN intakes' = [intakes EXCEPT ![s].opened = TRUE, ![s].i = 0]
           ELSE intakes' = RemoveAt(intakes, s)
    /\ UNCHANGED <<pdfPages, view, optimizeCanvas, flattenPages,
                   selectedPages, activeId, now, merge>>

\* await pdf.getPage(i + 1), the push, and whatever follows up to the next
\* await: the next page, the next file, or the end of onDrop
OnDropPage(s) ==
    /\ s \in DOMAIN intakes
    /\ intakes[s].opened
    /\ \E t \in Readings :
       LET c == intakes[s]
           f == c.files[c.fileIdx]
           pushed == Append(c.newPages, NewPageEntry(f, c.i, t))
       IN  /\ now' = t
           /\ IF c.i + 1 < NumPages(f)
              THEN /\ intakes' = [intakes EXCEPT ![s].i = c.i + 1,
                                                 ![s].newPages = pushed]
                   /\ UNCHANGED <<pdfPages, view>>
              ELSE IF c.fileIdx < Len(c.files)
              THEN /\ intakes' = [intakes EXCEPT
                                     ![s].fileIdx = c.fileIdx + 1,
                                     ![s].opened = FALSE,
                                     ![s].i = 0,
                                     ![s].newPages = pushed]
                   /\ UNCHANGED <<pdfPages, view>>
              ELSE /\ pdfPages' = AppendPages(pdfPages, pushed)
                   /\ view' = "reorder"
                   /\ intakes' = RemoveAt(intakes, s)
    /\ UNCHANGED <<optimizeCanvas, flattenPages, selectedPages, activeId,
                   merge>>

\* the button "Add More PDFs": setView('upload')
AddMorePdfs ==
    /\ view = "reorder"
    /\ activeId = Null
    /\ view' = "upload"
    /\ UNCHANGED <<pdfPages, optimizeCanvas, flattenPages, selectedPages,
                   activeId, now, intakes, merge>>

(***************************************************************************)
(* Selection and the mutation buttons.  The checkboxes and the buttons are *)
(* rendered in the 'reorder' view only; the three buttons are disabled     *)
(* while nothing is selected.  No click happens while a drag is under way. *)
(***************************************************************************)
\* prev.includes(id) ? prev.filter((pid) => pid !== id) : [...prev, id]
Toggle(prev, id) ==
    IF Includes(prev, id)
    THEN SelectSeq(prev, LAMBDA pid : pid # id)
    ELSE Append(prev, id)

ToggleSelection(id) ==
    /\ view = "reorder"
    /\ activeId = Null
    /\ id \in IdSet(pdfPages)
    /\ selectedPages' = Toggle(selectedPages, id)
    /\ UNCHANGED <<pdfPages, view, optimizeCanvas, flattenPages, activeId,
                   now, intakes, merge>>

ClearSelection ==
    /\ view = "reorder"
    /\ activeId = Null
    /\ Len(selectedPages) # 0
    /\ selectedPages' = <<>>
    /\ UNCHANGED <<pdfPages, view, optimizeCanvas, flattenPages, activeId,
                   now, intakes, merge>>

\* the bug of removing only the entries of the first selected id
RemoveEntriesFirstOnly(pages, sel) ==
    SelectSeq(pages, LAMBDA p : p.id # sel[1])

\* pages.filter((p) => !selectedPages.includes(p.id))
RemoveEntries(pages, sel) ==
    SelectSeq(pages, LAMBDA p : ~Includes(sel, p.id))

\* the bug of leaving the selection as it was
KeepValidNoFilter(prev, validIds) == prev

\* prev.filter((id) => validIds.includes(id))
KeepValid(prev, validIds) ==
    SelectSeq(prev, LAMBDA id : Includes(validIds, id))

DeleteSelected ==
    /\ view = "reorder"
    /\ activeId = Null
    /\ Len(selectedPages) # 0
    /\ LET newPages == RemoveEntries(pdfPages, selectedPages)
           validIds == IdsOf(newPages)
       IN  /\ selectedPages' = KeepValid(selectedPages, validIds)
           /\ pdfPages' = newPages
    /\ UNCHANGED <<view, optimizeCanvas, flattenPages, activeId, now,
                   intakes, merge>>

\* the bug of adding 90 without the modulo
NextRotationNoWrap(r) == r + 90

\* ((p.rotation || 0) + 90) % 360
NextRotation(r) == (r + 90) % 360

\* the bug of rotating every entry, selected or not
RotateEntriesAll(pages, sel) ==
    [k \in DOMAIN pages |->
        [pages[k] EXCEPT !.rotation = (pages[k].rotation + 90) % 360]]

\* pages.map((p) => selectedPages.includes(p.id) ? {...p, rotation: ...} : p)
RotateEntries(pages, sel) ==
    [k \in DOMAIN pages |->
        IF Includes(sel, pages[k].id)
        THEN [pages[k] EXCEPT !.rotation = NextRotation(pages[k].rotation)]
        ELSE pages[k]]

RotateSelected ==
    /\ view = "reorder"
    /\ activeId = Null
    /\ Len(selectedPages) # 0
    /\ pdfPages' = RotateEntries(pdfPages, selectedPages)
    /\ UNCHANGED <<view, optimizeCanvas, flattenPages, selectedPages,
                   activeId, now, intakes, merge>>

(***************************************************************************)
(* Drag and drop.  event.active is the entry the drag started on;          *)
(* event.over is the entry under the pointer at the end, or null.          *)
(***************************************************************************)
HandleDragStart(id) ==
    /\ view = "reorder"
    /\ activeId = Null
    /\ id \in IdSet(pdfPages)
    /\ activeId' = id
    /\ UNCHANGED <<pdfPages, view, optimizeCanvas, flattenPages,
                   selectedPages, now, intakes, merge>>

\* selectedPages.includes(active.id) ? selectedPages : [active.id]
ActiveIds(sel, active) == IF Includes(sel, active) THEN sel ELSE <<active>>

\* oldIndexes.map(i => pdfPages[i]) over activeIds.map(id => findIndex(...))
MovedPages(pages, activeIds) ==
    [k \in DOMAIN activeIds |-> At(pages, FindIndex(pages, activeIds[k]))]

\* pdfPages.filter(p => !activeIds.includes(p.id))
RemainingPages(pages, activeIds) ==
    SelectSeq(pages, LAMBDA p : ~Includes(activeIds, p.id))

\* the array handed to setPdfPages: [...before, ...movedPages, ...after]
Reorder(pages, sel, active, over) ==
    LET activeIds == ActiveIds(sel, active)
        newIndex == FindIndex(pages, over)
        movedPages == MovedPages(pages, activeIds)
        remainingPages == RemainingPages(pages, activeIds)
        before == Slice(remainingPages, 0, newIndex)
        after == SliceFrom(remainingPages, newIndex)
    IN  before \o movedPages \o after

\* a drag-end without a target that goes on to the splice
DragMovesUnlessSame(active, over) == active # over

\* the drag-end reaches setPdfPages: "active.id !== over?.id" holds and
\* "over.id" does not throw.  With over null the test holds and over.id
\* throws, after setActiveId(null)
DragMoves(active, over) == active # over /\ over # Null

\* handleDragEnd; the registry is set only by a drag-end that moves
HandleDragEnd(over) ==
    /\ activeId # Null
    /\ over \in IdSet(pdfPages) \cup {Null}
    /\ activeId' = Null
    /\ IF DragMoves(activeId, over)
       THEN pdfPages' = Reorder(pdfPages, selectedPages, activeId, over)
       ELSE UNCHANGED pdfPages
    /\ UNCHANGED <<view, optimizeCanvas, flattenPages, selectedPages, now,
                   intakes, merge>>

(***************************************************************************)
(* The two option switches, rendered in the 'reorder' view.                *)
(***************************************************************************)
ToggleOptimizeCanvas ==
    /\ view = "reorder"
    /\ activeId = Null
    /\ optimizeCanvas' = ~optimizeCanvas
    /\ UNCHANGED <<pdfPages, view, flattenPages, selectedPages, activeId,
                   now, intakes, merge>>

ToggleFlattenPages ==
    /\ view = "reorder"
    /\ activeId = Null
    /\ flattenPages' = ~flattenPages
    /\ UNCHANGED <<pdfPages, view, optimizeCanvas, selectedPages, activeId,
                   now, intakes, merge>>

(***************************************************************************)
(* Merge: mergeAndDownload, an async function.  It works on the pdfPages,  *)
(* flattenPages and optimizeCanvas of the render in which the button was   *)
(* clicked.  merge is the local state of the call that is followed:        *)
(*   pages, flatten, optimize  the values the closure holds,               *)
(*   k                         the position of the for loop (from 1),      *)
(*   loadedPdfs                the Map from file name to decoded document  *)
(*                             (a document is named by the file it was     *)
(*                             decoded from), as a list of pairs,          *)
(*   decoded                   the files decoded so far, in order,         *)
(*   out                       the pages of mergedPdf.                     *)
(* A call ends "done" (the download was triggered) or "failed" (the catch  *)
(* logged the error); a later click starts the next call.                  *)
(***************************************************************************)
MAX_WIDTH == 612
MAX_HEIGHT == 792

\* what Map.get returns for a key that is not in the map
NoDoc == "undefined"

\* loadedPdfs.get(name): the document stored under the name
MapGet(map, name) ==
    IF \E j \in DOMAIN map : map[j][1] = name
    THEN map[CHOOSE j \in DOMAIN map : map[j][1] = name][2]
    ELSE NoDoc

\* loadedPdfs.set(name, doc) for a name that is not in the map
MapSet(map, name, doc) == Append(map, <<name, doc>>)

\* the key under which the document of an entry is cached
CacheKey(page) == FileName(page.file)

\* scale < 1 for scale = Math.min(MAX_WIDTH / w, MAX_HEIGHT / h, 1)
ScalesDown(w, h) == MAX_WIDTH < w \/ MAX_HEIGHT < h

\* the ratio of the widths alone
ScaleFractionWidthOnly(w, h) == <<MAX_WIDTH, w>>

\* Math.min(MAX_WIDTH / w, MAX_HEIGHT / h) as the fraction <<num, den>>
ScaleFraction(w, h) ==
    IF MAX_WIDTH * h <= MAX_HEIGHT * w
    THEN <<MAX_WIDTH, w>>
    ELSE <<MAX_HEIGHT, h>>

\* the page the flatten branch adds: an image rendered by pdf.js from the
\* entry's own file at getViewport({ scale }), on a page of the size of
\* srcPage
FlattenedPage(page, w, h) ==
    [kind |-> "image", srcFile |-> page.file, srcIndex |-> page.pageIndex,
     width |-> <<w, 1>>, height |-> <<h, 1>>, scale |-> <<1, 1>>,
     rasterRotation |-> 0, rotation |-> 0]

\* the page the normalize branch adds: srcPage embedded and drawn at scale
\* on a page of w * scale by h * scale
ScaledPage(srcDoc, page, w, h) ==
    LET sc == ScaleFraction(w, h)
    IN  [kind |-> "embedded", srcFile |-> srcDoc, srcIndex |-> page.pageIndex,
         width |-> <<w * sc[1], sc[2]>>, height |-> <<h * sc[1], sc[2]>>,
         scale |-> sc, rasterRotation |-> 0, rotation |-> 0]

\* the page the copy branch adds: copyPages(srcPdf, [page.pageIndex]) with
\* setRotation(degrees(page.rotation)) when page.rotation is not 0
CopiedPage(srcDoc, page, w, h) ==
    [kind |-> "copied", srcFile |-> srcDoc, srcIndex |-> page.pageIndex,
     width |-> <<w, 1>>, height |-> <<h, 1>>, scale |-> <<1, 1>>,
     rasterRotation |-> 0, rotation |-> page.rotation]

\* the output page of one entry, given the decoded document it is read from
OutputPage(srcDoc, page, flatten, optimize) ==
    LET w == PageWidth(srcDoc, page.pageIndex)
        h == PageHeight(srcDoc, page.pageIndex)
    IN  IF flatten THEN FlattenedPage(page, w, h)
        ELSE IF optimize /\ ScalesDown(w, h) THEN ScaledPage(srcDoc, page, w, h)
        ELSE CopiedPage(srcDoc, page, w, h)

\* the page the normalize branch has added when embedPage rejects: addPage
\* runs before the await, drawPage after it
BlankPage(w, h) ==
    LET sc == ScaleFraction(w, h)
    IN  [kind |-> "blank", srcFile |-> NoDoc, srcIndex |-> -1,
         width |-> <<w * sc[1], sc[2]>>, height |-> <<h * sc[1], sc[2]>>,
         scale |-> sc, rasterRotation |-> 0, rotation |-> 0]

\* the registry as it is when a turn of the loop runs
MergePagesLive == pdfPages

\* the pdfPages the for loop walks: the array of the closure
MergePages == merge.pages

\* the flattenPages and optimizeCanvas the loop body reads: the closure's
MergeFlatten == merge.flatten
MergeOptimize == merge.optimize

\* !srcPdf after loadedPdfs.get(page.file.name)
Miss(m, page) == MapGet(m.loadedPdfs, CacheKey(page)) = NoDoc

\* srcPdf after the if: the cached document, or the entry's file decoded
SrcDoc(m, page) ==
    IF Miss(m, page) THEN page.file
    ELSE MapGet(m.loadedPdfs, CacheKey(page))

\* the call after "if (!srcPdf) { ... }": on a miss the file was decoded and
\* stored under its name
AfterLookup(m, page) ==
    IF Miss(m, page)
    THEN [m EXCEPT !.loadedPdfs = MapSet(m.loadedPdfs, CacheKey(page), page.file),
                   !.decoded = Append(m.decoded, page.file)]
    ELSE m

\* a catch that goes on to the download
CaughtAndDelivers(m) == [m EXCEPT !.status = "done"]

\* catch (err) { console.error('Merge failed:', err) }: the call is over
Caught(m) == [m EXCEPT !.status = "failed"]

\* the call as it starts: the closure's pdfPages, flattenPages and
\* optimizeCanvas, an empty document and an empty cache
StartedMerge(pages, flatten, optimize) ==
    [status |-> "running", pages |-> pages,
     flatten |-> flatten, optimize |-> optimize,
     k |-> 1, loadedPdfs |-> <<>>, decoded |-> <<>>, out |-> <<>>]

\* the click on "Merge & Download", up to await PDFDocument.create()
MergeStart ==
    /\ view = "reorder"
    /\ activeId = Null
    /\ merge.status # "running"
    /\ merge' = StartedMerge(pdfPages, flattenPages, optimizeCanvas)
    /\ UNCHANGED <<pdfPages, view, optimizeCanvas, flattenPages,
                   selectedPages, activeId, now, intakes>>

\* the call m after the turn of the loop for pages[m.k].  srcPdf.getPage
\* throws for an index the cached document does not have, and the catch
\* ends the call.  The flatten branch decodes the entry's file once more,
\* with pdf.js.
Turn(m, pages, flatten, optimize) ==
    LET page == pages[m.k]
        srcDoc == SrcDoc(m, page)
        looked == AfterLookup(m, page)
    IN  IF page.pageIndex < NumPages(srcDoc)
        THEN [looked EXCEPT
                 !.decoded = IF flatten
                             THEN Append(looked.decoded, page.file)
                             ELSE looked.decoded,
                 !.out = Append(looked.out,
                            OutputPage(srcDoc, page, flatten, optimize)),
                 !.k = looked.k + 1]
        ELSE Caught(looked)

\* one turn of the for loop
MergePage ==
    /\ merge.status = "running"
    /\ merge.k <= Len(MergePages)
    /\ merge' = Turn(merge, MergePages, MergeFlatten, MergeOptimize)
    /\ UNCHANGED <<pdfPages, view, optimizeCanvas, flattenPages,
                   selectedPages, activeId, now, intakes>>

\* one turn of the for loop in which an await rejects: at "decode" the read
\* or the parse of the file (file.arrayBuffer, PDFDocument.load), at "page"
\* the render, embedPng, embedPage or copyPages of the page
MergePageFails(stage) ==
    /\ merge.status = "running"
    /\ merge.k <= Len(MergePages)
    /\ LET page == MergePages[merge.k]
           srcDoc == SrcDoc(merge, page)
           m == AfterLookup(merge, page)
           w == PageWidth(srcDoc, page.pageIndex)
           h == PageHeight(srcDoc, page.pageIndex)
       IN  IF stage = "decode"
           THEN /\ Miss(merge, page)
                /\ merge' = Caught(merge)
           ELSE /\ page.pageIndex < NumPages(srcDoc)
                /\ merge' = Caught(
                      IF ~MergeFlatten /\ MergeOptimize /\ ScalesDown(w, h)
                      THEN [m EXCEPT !.out = Append(m.out, BlankPage(w, h))]
                      ELSE m)
    /\ UNCHANGED <<pdfPages, view, optimizeCanvas, flattenPages,
                   selectedPages, activeId, now, intakes>>

\* after the loop: await mergedPdf.save() and the click on the download link
MergeSave ==
    /\ merge.status = "running"
    /\ merge.k > Len(MergePages)
    /\ merge' = [merge EXCEPT !.status = "done"]
    /\ UNCHANGED <<pdfPages, view, optimizeCanvas, flattenPages,
                   selectedPages, activeId, now, intakes>>

\* after the loop: mergedPdf.save() rejects
MergeSaveFails ==
    /\ merge.status = "running"
    /\ merge.k > Len(MergePages)
    /\ merge' = Caught(merge)
    /\ UNCHANGED <<pdfPages, view, optimizeCanvas, flattenPages,
                   selectedPages, activeId, now, intakes>>

(***************************************************************************)
(* Specifications.  All start from the state after construction.           *)
(*   SpecIntake: the intake, with the two operations that shrink the       *)
(*               registry, so that a file can be taken in again after its  *)
(*               pages were deleted;                                       *)
(*   SpecDrag:   intake, selection, delete and drag (no rotation);         *)
(*   Spec:       the whole editor, on registries of at most MaxEditPages   *)
(*               pages;                                                    *)
(*   SpecMerge:  intake, the option switches and the merge.                *)
(***************************************************************************)
NextIntake ==
    \/ \E files \in Drops : OnDropStart(files)
    \/ \E s \in DOMAIN intakes : OnDropOpen(s)
    \/ \E s \in DOMAIN intakes : OnDropPage(s)
    \/ AddMorePdfs
    \/ \E id \in IdSet(pdfPages) : ToggleSelection(id)
    \/ DeleteSelected

SpecIntake == Init /\ [][NextIntake]_vars

NextDrag ==
    \/ NextIntake
    \/ ClearSelection
    \/ \E id \in IdSet(pdfPages) : HandleDragStart(id)
    \/ \E over \in IdSet(pdfPages) \cup {Null} : HandleDragEnd(over)

SpecDrag == Init /\ [][NextDrag]_vars

\* the registry and the intakes in flight stay within MaxEditPages
EditFits ==
    Len(pdfPages') + PendingWeight(intakes') <= MaxEditPages

Next ==
    \/ \E files \in Drops : OnDropStart(files) /\ EditFits
    \/ \E s \in DOMAIN intakes : OnDropOpen(s)
    \/ \E s \in DOMAIN intakes : OnDropPage(s)
    \/ AddMorePdfs
    \/ \E id \in IdSet(pdfPages) : ToggleSelection(id)
    \/ ClearSelection
    \/ DeleteSelected
    \/ RotateSelected
    \/ \E id \in IdSet(pdfPages) : HandleDragStart(id)
    \/ \E over \in IdSet(pdfPages) \cup {Null} : HandleDragEnd(over)

Spec == Init /\ [][Next]_vars

NextMerge ==
    \/ \E files \in Drops : OnDropStart(files)
    \/ \E s \in DOMAIN intakes : OnDropOpen(s)
    \/ \E s \in DOMAIN intakes : OnDropPage(s)
    \/ AddMorePdfs
    \/ ToggleOptimizeCanvas
    \/ ToggleFlattenPages
    \/ MergeStart
    \/ MergePage
    \/ \E stage \in {"decode", "page"} : MergePageFails(stage)
    \/ MergeSave
    \/ MergeSaveFails

SpecMerge == Init /\ [][NextMerge]_vars

\* no call of mergeAndDownload has been made yet
BeforeMerge == merge.status = "idle"

\* no call of mergeAndDownload has ended yet
MergeNotOver == merge.status \in {"idle", "running"}

\* the registry is taken in and rotated, and then merged once
NextRotate ==
    \/ \E files \in Drops : BeforeMerge /\ OnDropStart(files) /\ EditFits
    \/ \E s \in DOMAIN intakes : BeforeMerge /\ OnDropOpen(s)
    \/ \E s \in DOMAIN intakes : BeforeMerge /\ OnDropPage(s)
    \/ BeforeMerge /\ AddMorePdfs
    \/ \E id \in IdSet(pdfPages) : BeforeMerge /\ ToggleSelection(id)
    \/ BeforeMerge /\ RotateSelected
    \/ BeforeMerge /\ ToggleOptimizeCanvas
    \/ BeforeMerge /\ ToggleFlattenPages
    \/ BeforeMerge /\ MergeStart
    \/ MergePage
    \/ \E stage \in {"decode", "page"} : MergePageFails(stage)
    \/ MergeSave
    \/ MergeSaveFails

SpecRotate == Init /\ [][NextRotate]_vars

\* a step of the editor while no call of mergeAndDownload has ended, with
\* the clock standing still
EditorStep == MergeNotOver /\ now' = now

\* a call of mergeAndDownload is running
DuringMerge == merge.status = "running"

\* one call of mergeAndDownload with the editor at work while it runs: the
\* registry is taken in before the click, and every handler may run between
\* the steps of the call
NextMergeEdit ==
    \/ \E files \in Drops : EditorStep /\ OnDropStart(files) /\ EditFits
    \/ \E s \in DOMAIN intakes : EditorStep /\ OnDropOpen(s)
    \/ \E s \in DOMAIN intakes : EditorStep /\ OnDropPage(s)
    \/ EditorStep /\ AddMorePdfs
    \/ \E id \in IdSet(pdfPages) : EditorStep /\ ToggleSelection(id)
    \/ EditorStep /\ ToggleOptimizeCanvas
    \/ EditorStep /\ ToggleFlattenPages
    \/ DuringMerge /\ DeleteSelected
    \/ DuringMerge /\ RotateSelected
    \/ \E id \in IdSet(pdfPages) : DuringMerge /\ HandleDragStart(id)
    \/ \E over \in IdSet(pdfPages) \cup {Null} :
          DuringMerge /\ HandleDragEnd(over)
    \/ BeforeMerge /\ MergeStart
    \/ MergePage
    \/ \E stage \in {"decode", "page"} : MergePageFails(stage)
    \/ MergeSave
    \/ MergeSaveFails

SpecMergeEdit == Init /\ [][NextMergeEdit]_vars

(***************************************************************************)
(* Properties.                                                             *)
(***************************************************************************)
\* the set of the ids in the selection
SelectedSet == {selectedPages[k] : k \in DOMAIN selectedPages}

\* pages without / with only the entries whose id is in the set S, in order
Without(pages, S) == SelectSeq(pages, LAMBDA p : p.id \notin S)
Only(pages, S) == SelectSeq(pages, LAMBDA p : p.id \in S)

\* C1: in every reachable state every selected id is the id of an entry of
\* the registry, and a delete leaves no deleted id in the selection.
C1_SelectionInRegistry ==
    \A k \in DOMAIN selectedPages :
       \E j \in DOMAIN pdfPages : pdfPages[j].id = selectedPages[k]

\* C1 witness: one page of the two-page file FA was deleted and the other
\* one is selected afterwards.
C1_Witness ==
    /\ Len(pdfPages) = 1
    /\ pdfPages[1].file = FA
    /\ selectedPages = <<pdfPages[1].id>>

\* C2: no two entries of the registry have the same id.
C2_UniqueIds ==
    \A j, k \in DOMAIN pdfPages : j # k => pdfPages[j].id # pdfPages[k].id

\* the entries the files of one drop stand for: per file, in the order of
\* the drop, its pages 0..n-1, each at rotation 0
RECURSIVE ExpectedOfDrop(_)
ExpectedOfDrop(files) ==
    IF files = <<>> THEN <<>>
    ELSE [i \in 1..NumPages(Head(files)) |->
             [file |-> Head(files), pageIndex |-> i - 1, rotation |-> 0]]
         \o ExpectedOfDrop(Tail(files))

\* an entry without its id and its size
Content(pages) ==
    [k \in DOMAIN pages |->
        [file |-> pages[k].file, pageIndex |-> pages[k].pageIndex,
         rotation |-> pages[k].rotation]]

\* the call in slot s ends with this step
Finishes(s) == OnDropPage(s) /\ intakes' = RemoveAt(intakes, s)

\* C3: the step that ends an intake appends, after the unchanged registry,
\* the pages 0..n-1 of each file of the drop, in order and at rotation 0;
\* no other step of an intake changes the registry.
C3_IntakeAppends ==
    [][\A s \in DOMAIN intakes :
          /\ Finishes(s) =>
                /\ Len(pdfPages') = Len(pdfPages) + Len(ExpectedOfDrop(intakes[s].files))
                /\ SubSeq(pdfPages', 1, Len(pdfPages)) = pdfPages
                /\ Content(SubSeq(pdfPages', Len(pdfPages) + 1, Len(pdfPages')))
                      = ExpectedOfDrop(intakes[s].files)
          /\ (OnDropOpen(s) \/ (OnDropPage(s) /\ ~Finishes(s))) =>
                pdfPages' = pdfPages]_vars

\* C3 witness: the registry holds a page that a finished intake pushed at a
\* later clock reading than a page of an intake that is still in flight:
\* the two intakes ran at the same time.
C3_Witness ==
    /\ Len(pdfPages) > 0
    /\ Len(intakes) > 0
    /\ intakes[1].newPages # <<>>
    /\ intakes[1].newPages[1].id[3] < pdfPages[Len(pdfPages)].id[3]

\* the positions of the selected entries in an array of pages
SelectedPositions(pages) ==
    {k \in DOMAIN pages : pages[k].id \in SelectedSet}

\* C4: after the drag of a selected entry onto another entry the selected
\* entries are consecutive and in the relative order they had before.
C4_BlockKeepsRegistryOrder ==
    [][\A over \in IdSet(pdfPages) :
          (HandleDragEnd(over) /\ activeId \in SelectedSet /\ over # activeId) =>
             /\ \A j, k \in SelectedPositions(pdfPages') :
                   \A m \in j..k : m \in SelectedPositions(pdfPages')
             /\ Only(pdfPages', SelectedSet) = Only(pdfPages, SelectedSet)]_vars

\* the set of the ids that move with the active entry
MoveSet == IF activeId \in SelectedSet THEN SelectedSet ELSE {activeId}

\* the splice remaining[0:idx] + moved + remaining[idx:], idx being the
\* position of the target within remaining
SpliceAtTarget(pages, S, over) ==
    LET moved == Only(pages, S)
        remaining == Without(pages, S)
        idx == FindIndex(remaining, over)
    IN  SubSeq(remaining, 1, idx) \o moved
           \o SubSeq(remaining, idx + 1, Len(remaining))

\* C5: a drag that ends on a target outside the move set yields
\* remaining[0:idx] + moved + remaining[idx:], with idx the position of the
\* target within remaining.
C5_SpliceAtTargetInRemaining ==
    [][\A over \in IdSet(pdfPages) \ MoveSet :
          HandleDragEnd(over) =>
             pdfPages' = SpliceAtTarget(pdfPages, MoveSet, over)]_vars

\* how often x occurs in an array
Count(arr, x) == Cardinality({k \in DOMAIN arr : arr[k] = x})

\* b holds the elements of a, each as often as a does
IsPermutation(a, b) ==
    /\ Len(a) = Len(b)
    /\ \A k \in DOMAIN a : Count(a, a[k]) = Count(b, a[k])

\* C6: every drag-end leaves a permutation of the registry before it.
C6_DragPermutes ==
    [][\A over \in IdSet(pdfPages) \cup {Null} :
          HandleDragEnd(over) => IsPermutation(pdfPages, pdfPages')]_vars

Quarter == {0, 90, 180, 270}

\* C8: rotateSelected adds 90 modulo 360 to the rotation of exactly the
\* selected entries and changes nothing else; every rotation is one of
\* 0, 90, 180, 270.
C8_RotateSelected ==
    /\ [](\A k \in DOMAIN pdfPages : pdfPages[k].rotation \in Quarter)
    /\ [][RotateSelected =>
             /\ Len(pdfPages') = Len(pdfPages)
             /\ \A k \in DOMAIN pdfPages :
                   IF pdfPages[k].id \in SelectedSet
                   THEN pdfPages'[k] =
                          [pdfPages[k] EXCEPT
                             !.rotation = (pdfPages[k].rotation + 90) % 360]
                   ELSE pdfPages'[k] = pdfPages[k]
             /\ selectedPages' = selectedPages]_vars

\* C8 witness: of two entries with different ids one is selected and was
\* rotated three times, the other one is not selected and was never rotated.
C8_Witness ==
    /\ Len(pdfPages) = 2
    /\ pdfPages[1].id # pdfPages[2].id
    /\ selectedPages = <<pdfPages[1].id>>
    /\ pdfPages[1].rotation = 270
    /\ pdfPages[2].rotation = 0

\* rotateSelected applied four times with the same selection
RotateFourTimes(pages, sel) ==
    RotateEntries(RotateEntries(RotateEntries(RotateEntries(pages, sel),
                                              sel), sel), sel)

\* C9: four rotations in a row with the same selection give back every
\* rotation.
C9_FourRotationsRestore ==
    RotateFourTimes(pdfPages, selectedPages) = pdfPages

\* C9 witness: a selected entry at 270 next to a selected entry at 0: the
\* four rotations take both through the wrap from 270 to 0.
C9_Witness ==
    /\ Len(pdfPages) = 2
    /\ Len(selectedPages) = 2
    /\ pdfPages[1].rotation = 270
    /\ pdfPages[2].rotation = 0

\* C10: the document a finished merge delivers has one page per entry of
\* the registry the merge was started on, and its k-th page is the page
\* sourcePageIndex of the source file of the k-th entry.
C10_OnePagePerEntryInOrder ==
    merge.status = "done" =>
       /\ Len(merge.out) = Len(merge.pages)
       /\ \A k \in DOMAIN merge.pages :
             /\ merge.out[k].srcFile = merge.pages[k].file
             /\ merge.out[k].srcIndex = merge.pages[k].pageIndex

\* C11: a download is triggered only by the step that follows the last
\* turn of the loop, with one output page per entry; a call that failed
\* stays failed until the next click, and delivers nothing.
C11_AllOrNothing ==
    /\ [](merge.status = "done" =>
            /\ merge.k = Len(merge.pages) + 1
            /\ Len(merge.out) = Len(merge.pages))
    /\ [][(merge'.status = "done" /\ merge.status # "done") =>
             (merge.status = "running" /\ merge.k > Len(merge.pages))]_vars
    /\ [][merge.status = "failed" =>
             (merge'.status = "failed" \/ MergeStart)]_vars
    /\ [][(MergePageFails("decode") \/ MergePageFails("page")
                \/ MergeSaveFails) => merge'.status = "failed"]_vars

\* C11 witness: a merge of three entries failed after two of them were
\* processed.
C11_Witness ==
    /\ merge.status = "failed"
    /\ Len(merge.pages) = 3
    /\ Len(merge.out) = 2

\* the call in slot s ends with this step, by its last page or by the
\* rejection of a file
Ends(s) ==
    (OnDropOpen(s) \/ OnDropPage(s)) /\ intakes' = RemoveAt(intakes, s)

\* C12: whenever an intake ends, with or without a file that did not parse,
\* the registry is the registry before followed by the pages of every file
\* of the drop that parsed, and the entries it had are unchanged.
C12_OnlyBadFileSkipped ==
    [][\A s \in DOMAIN intakes :
          Ends(s) =>
             /\ Len(pdfPages') = Len(pdfPages) + Len(ExpectedOfDrop(intakes[s].files))
             /\ SubSeq(pdfPages', 1, Len(pdfPages)) = pdfPages
             /\ Content(SubSeq(pdfPages', Len(pdfPages) + 1, Len(pdfPages')))
                   = ExpectedOfDrop(intakes[s].files)]_vars

\* C13: in the output of a merge with flatten on, every page is the raster
\* of its entry drawn at the entry's rotation, and the rotation property of
\* the page is 0.
C13_FlattenBakesRotation ==
    (merge.status = "done" /\ merge.flatten) =>
       \A k \in DOMAIN merge.out :
          /\ merge.out[k].kind = "image"
          /\ merge.out[k].rasterRotation = merge.pages[k].rotation
          /\ merge.out[k].rotation = 0

\* the output pages of a finished merge with normalize on and flatten off
\* that were read from a source page of 1000 x 1300
NormalizedTallPages ==
    IF merge.status = "done" /\ ~merge.flatten /\ merge.optimize
    THEN {k \in DOMAIN merge.out :
            /\ PageWidth(merge.out[k].srcFile, merge.out[k].srcIndex) = 1000
            /\ PageHeight(merge.out[k].srcFile, merge.out[k].srcIndex) = 1300}
    ELSE {}

\* fractions <<num, den>>: lowest terms, product, and comparison with an
\* integer
RECURSIVE Gcd(_, _)
Gcd(a, b) == IF b = 0 THEN a ELSE Gcd(b, a % b)

Reduced(fr) == <<fr[1] \div Gcd(fr[1], fr[2]), fr[2] \div Gcd(fr[1], fr[2])>>

Times(fa, fb) ==
    LET x == Reduced(fa)
        y == Reduced(fb)
    IN  Reduced(<<(x[1] \div Gcd(x[1], y[2])) * (y[1] \div Gcd(y[1], x[2])),
                  (x[2] \div Gcd(y[1], x[2])) * (y[2] \div Gcd(x[1], y[2]))>>)

AtMost(fr, n) == Reduced(fr)[1] <= n * Reduced(fr)[2]

\* the page p is the source page of w x h drawn at p.scale on both axes, it
\* fits MAX_WIDTH x MAX_HEIGHT, and its aspect ratio is that of the source
ScaledToFit(p, w, h) ==
    /\ Reduced(p.width) = Times(<<w, 1>>, p.scale)
    /\ Reduced(p.height) = Times(<<h, 1>>, p.scale)
    /\ AtMost(p.width, MAX_WIDTH)
    /\ AtMost(p.height, MAX_HEIGHT)
    /\ Times(p.width, <<p.height[2], p.height[1]>>) = Reduced(<<w, h>>)

\* C14 as stated: with normalize on and flatten off a page of 1000 x 1300
\* is output at the scale 0.612 = 612/1000 on both axes, within 612 x 792
\* and with its aspect ratio.
C14_ScaleIs612Thousandths ==
    \A k \in NormalizedTallPages :
       /\ Reduced(merge.out[k].scale) = Reduced(<<612, 1000>>)
       /\ ScaledToFit(merge.out[k], 1000, 1300)

\* C14 amended: with normalize on and flatten off a page of 1000 x 1300 is
\* output at the scale min(612/1000, 792/1300, 1) = 792/1300 (about 0.6092)
\* on both axes, as a page of 7920/13 x 792, within 612 x 792 and with its
\* aspect ratio.
C14_ScaleIsMin ==
    \A k \in NormalizedTallPages :
       /\ Reduced(merge.out[k].scale) = Reduced(<<792, 1300>>)
       /\ Reduced(merge.out[k].width) = <<7920, 13>>
       /\ Reduced(merge.out[k].height) = <<792, 1>>
       /\ ScaledToFit(merge.out[k], 1000, 1300)

\* C14 witness: a finished merge with normalize on and flatten off has
\* scaled the page of FA2, which is 1000 x 1300.
C14_Witness ==
    \E k \in NormalizedTallPages :
       /\ merge.out[k].kind = "embedded"
       /\ merge.out[k].srcFile = FA2

\* C15: during a merge no source file is decoded twice, whatever the
\* options, and every output page is read from the file of its own entry,
\* also when two files have the same name.
C15_DecodeOncePerFile ==
    /\ \A i, j \in DOMAIN merge.decoded :
          i # j => merge.decoded[i] # merge.decoded[j]
    /\ \A k \in DOMAIN merge.out :
          merge.out[k].kind # "blank" =>
             merge.out[k].srcFile = merge.pages[k].file

\* what the page shows: the state the render reads
Rendered ==
    <<pdfPages, view, optimizeCanvas, flattenPages, selectedPages, activeId>>

\* the step in which a call of onDrop ends by a rejection
IntakeFails == \E s \in DOMAIN intakes : OnDropOpen(s) /\ Ends(s)

\* the step in which a call of mergeAndDownload ends in its catch
MergeFails == merge.status = "running" /\ merge'.status = "failed"

\* C16: a failure of an intake or of a merge shows on the page.  The call
\* that failed is over with the step of the failure and nothing of it runs
\* later, so what the user is to see has to be set by that step.
C16_FailureSurfaced ==
    [][(IntakeFails \/ MergeFails) => Rendered' # Rendered]_vars

\* arr with x put in at position j
InsertAt(arr, j, x) ==
    SubSeq(arr, 1, j - 1) \o <<x>> \o SubSeq(arr, j, Len(arr))

\* after is before with one entry of the id taken out and put back
\* somewhere
OnlyMoves(before, after, id) ==
    \E a \in DOMAIN before :
       /\ before[a].id = id
       /\ \E j \in DOMAIN before :
             after = InsertAt(RemoveAt(before, a), j, before[a])

\* C17: a drag-end leaves the entries outside the move set in their
\* relative order, the drag-end of an unselected entry changes the position
\* of that entry and nothing else, and neither the start nor the end of a
\* drag changes the selection.
C17_DragFrame ==
    /\ [][\A over \in IdSet(pdfPages) \cup {Null} :
             HandleDragEnd(over) =>
                /\ Without(pdfPages', MoveSet) = Without(pdfPages, MoveSet)
                /\ activeId \notin SelectedSet =>
                      OnlyMoves(pdfPages, pdfPages', activeId)
                /\ selectedPages' = selectedPages]_vars
    /\ [][\A id \in IdSet(pdfPages) :
             HandleDragStart(id) => selectedPages' = selectedPages]_vars

\* C19: a drag-end on the dragged entry itself or without a target leaves
\* the registry and the selection as they are and clears activeId, and the
\* start of a drag changes neither the registry nor the selection.
C19_NoOpDrag ==
    /\ [][\A over \in {activeId, Null} :
             HandleDragEnd(over) =>
                /\ pdfPages' = pdfPages
                /\ selectedPages' = selectedPages
                /\ activeId' = Null]_vars
    /\ [][\A id \in IdSet(pdfPages) :
             HandleDragStart(id) =>
                (pdfPages' = pdfPages /\ selectedPages' = selectedPages)]_vars

\* C19 witness: a selected entry of a registry of three is being dragged
\* with a second entry selected, so that a splice would move two entries;
\* the drag can end on the entry itself or without a target.
C19_Witness ==
    /\ activeId # Null
    /\ Len(pdfPages) = 3
    /\ Len(selectedPages) = 2
    /\ activeId \in SelectedSet
    /\ ENABLED HandleDragEnd(activeId)
    /\ ENABLED HandleDragEnd(Null)

\* C18: in the output of a merge with flatten off, the page of every entry
\* whose rotation is not 0 carries that rotation, be it copied or scaled.
C18_RotationCarried ==
    (merge.status = "done" /\ ~merge.flatten) =>
       \A k \in DOMAIN merge.out :
          merge.pages[k].rotation # 0 =>
             merge.out[k].rotation = merge.pages[k].rotation

\* the call m run to the end of its loop on its own pages and options
RECURSIVE RunLoop(_)
RunLoop(m) ==
    IF m.status = "running" /\ m.k <= Len(m.pages)
    THEN RunLoop(Turn(m, m.pages, m.flatten, m.optimize))
    ELSE m

\* a step of a call of mergeAndDownload
MergeStep ==
    \/ MergeStart
    \/ MergePage
    \/ MergePageFails("decode")
    \/ MergePageFails("page")
    \/ MergeSave
    \/ MergeSaveFails

\* C20: a call of mergeAndDownload works on the registry and the options
\* of its click whatever the editor does while it runs.  Its pages and
\* options stay what the click found; every turn of the loop is the turn
\* for the k-th of these pages, and fails only if that turn fails; the
\* download follows the last of these pages with the output unchanged;
\* what a finished call delivers is what its loop gives on these pages
\* alone; no step of the editor changes the call, and no step of the call
\* changes the registry or the selection.
C20_MergeWorksOnSnapshot ==
    /\ [][(merge.status = "running" /\ merge'.status # "idle") =>
             /\ merge'.pages = merge.pages
             /\ merge'.flatten = merge.flatten
             /\ merge'.optimize = merge.optimize]_vars
    /\ [][MergeStart =>
             merge' = StartedMerge(pdfPages, flattenPages, optimizeCanvas)]_vars
    /\ [][MergePage =>
             /\ merge.k <= Len(merge.pages)
             /\ merge' = Turn(merge, merge.pages, merge.flatten,
                              merge.optimize)]_vars
    /\ [][(merge.status = "running" /\ merge'.status = "done") =>
             /\ merge.k = Len(merge.pages) + 1
             /\ merge'.out = merge.out]_vars
    /\ [](merge.status = "done" =>
            merge.out = RunLoop(StartedMerge(merge.pages, merge.flatten,
                                             merge.optimize)).out)
    /\ [][merge' # merge => MergeStep]_vars
    /\ [][MergeStep =>
             (pdfPages' = pdfPages /\ selectedPages' = selectedPages)]_vars

\* C20 witness: a merge of two pages has delivered its two pages although
\* both entries were deleted and both options were switched while it ran.
C20_Witness ==
    /\ merge.status = "done"
    /\ Len(merge.pages) = 2
    /\ Len(merge.out) = 2
    /\ pdfPages = <<>>
    /\ flattenPages # merge.flatten
    /\ optimizeCanvas # merge.optimize

====
